---- MODULE Spec2Model ----
(***************************************************************************)
(* Model of the prune pipeline of scaleway-registry-prune                  *)
(* (scaleway_registry_prune/src/main.rs) together with the parts of the    *)
(* registry client (scaleway_sdk/src/registry.rs) it calls.                *)
(*                                                                         *)
(* One run of try_main is a single sequential flow.  Every await of a      *)
(* registry call is a step; the response of the remote service is an input *)
(* of that step, drawn from a small set.                                   *)
(***************************************************************************)
EXTENDS Integers, Sequences, FiniteSets

(***************************************************************************)
(* Bounds of the model.                                                    *)
(***************************************************************************)
MaxTags == 3
MaxTime == 2
MaxKeepLast == 3
MaxLineLen == 2
MaxNamespaces == 2
MaxImages == 2
MaxArgLen == 5

(***************************************************************************)
(* Option<T>                                                               *)
(***************************************************************************)
None == <<>>
Some(x) == <<x>>
IsSome(o) == o # <<>>
Unwrap(o) == o[1]

(***************************************************************************)
(* Universes of the values the remote service can return.                  *)
(***************************************************************************)
NamespaceIds == {"n1", "n2"}
NamespaceNames == {"prod", "Prod"}
ImageIds == {"i1", "i2"}
ImageNames == {"api", "web"}
TagIdList == <<"t1", "t2", "t3", "t4", "t5", "t6">>
TagNameList == <<"v1", "v2", "v3", "v4", "v5", "v6">>
Times == 1..MaxTime

\* struct Namespace (only the fields the pipeline reads)
Namespace == [id : NamespaceIds, name : NamespaceNames]
\* struct Image
Image == [id : ImageIds, name : ImageNames, namespace_id : NamespaceIds]

\* Sequences over S of length at most n
SeqsUpTo(S, n) == UNION {[1..k -> S] : k \in 0..n}

DistinctIds(s) == \A i, j \in 1..Len(s) : i # j => s[i].id # s[j].id

\* Ok(Vec<Namespace>) bodies of GET /namespaces
NamespaceResponses == {s \in SeqsUpTo(Namespace, MaxNamespaces) : DistinctIds(s)}
\* Ok(Vec<Image>) bodies of GET /images
ImageResponses == {s \in SeqsUpTo(Image, MaxImages) : DistinctIds(s)}

\* Ok(Vec<ImageTag>) bodies of GET /images/{image_id}/tags: the tags of that
\* image in server order, with arbitrary update times (ties included).
MakeTags(image_id, ts) ==
    [i \in 1..Len(ts) |-> [id |-> TagIdList[i], name |-> TagNameList[i],
                           image_id |-> image_id, updated_at |-> ts[i]]]

ImageTagResponses(image_id) ==
    {MakeTags(image_id, ts) : ts \in SeqsUpTo(Times, MaxTags)}

\* scaleway_sdk::Error values a registry call can fail with
SdkErrors == {[variant |-> "ApiError", message |-> "permission denied"],
              [variant |-> "ReqwestError", message |-> "timed out"]}

\* impl From<ScalewaySdkError> for Error
FromSdkError(err) == [kind |-> "ApiError", cause |-> Some(err)]

\* The unit variants of enum Error
ErrorKind(k) == [kind |-> k, cause |-> None]

OkResult == [kind |-> "Ok", cause |-> None]
Pending == [kind |-> "Pending", cause |-> None]


(***************************************************************************)
(* Pure functions of main.rs                                               *)
(***************************************************************************)

\* Lower-casing of the names in NamespaceNames
Lower(name) == IF name = "Prod" THEN "prod" ELSE name

\* namespace_vec.iter().find(|ns| ns.name() == namespace)
find_namespace_ignore_case(namespace_vec, name) ==
    LET hits == {i \in 1..Len(namespace_vec) :
                    Lower(namespace_vec[i].name) = Lower(name)}
    IN  IF hits = {} THEN None
        ELSE Some(namespace_vec[CHOOSE i \in hits : \A j \in hits : i <= j])

find_namespace(namespace_vec, name) ==
    LET hits == {i \in 1..Len(namespace_vec) : namespace_vec[i].name = name}
    IN  IF hits = {} THEN None
        ELSE Some(namespace_vec[CHOOSE i \in hits : \A j \in hits : i <= j])

\* image_vec.iter().filter(|x| x.namespace_id() == namespace.id())
\*                 .find(|x| x.name() == image)
find_image_any_namespace(image_vec, namespace, name) ==
    LET hits == {i \in 1..Len(image_vec) : image_vec[i].name = name}
    IN  IF hits = {} THEN None
        ELSE Some(image_vec[CHOOSE i \in hits : \A j \in hits : i <= j])

find_image(image_vec, namespace, name) ==
    LET hits == {i \in 1..Len(image_vec) :
                    /\ image_vec[i].namespace_id = namespace.id
                    /\ image_vec[i].name = name}
    IN  IF hits = {} THEN None
        ELSE Some(image_vec[CHOOSE i \in hits : \A j \in hits : i <= j])

\* Insertion of x into the ascending sequence t behind every element that does
\* not compare greater: the position a stable sort gives it.
InsertStable(t, x) ==
    LET k == Cardinality({i \in 1..Len(t) : t[i].updated_at <= x.updated_at})
    IN  SubSeq(t, 1, k) \o <<x>> \o SubSeq(t, k + 1, Len(t))

\* tags.sort_by(|a, b| a.updated_at().cmp(&b.updated_at())): stable, ascending
sort_omitted(s) == s

RECURSIVE sort_by_updated_at(_)
sort_by_updated_at(s) ==
    IF s = <<>> THEN <<>>
    ELSE InsertStable(sort_by_updated_at(SubSeq(s, 1, Len(s) - 1)), s[Len(s)])

\* tags.reverse()
reverse_omitted(s) == s

reverse(s) == [i \in 1..Len(s) |-> s[Len(s) + 1 - i]]

\* The subsequence of s at the (1-based) positions in idx, in order
RECURSIVE Pick(_, _, _)
Pick(s, idx, from) ==
    IF from > Len(s) THEN <<>>
    ELSE (IF from \in idx THEN <<s[from]>> ELSE <<>>) \o Pick(s, idx, from + 1)

\* filter_image_tags: enumerate() counts from 0, position p has index p - 1
filter_image_tags_keeps_one(opts, image_tags) ==
    LET keep_last == opts.filter.keep_last
        kept == {p \in 1..Len(image_tags) :
                    IF IsSome(keep_last) THEN (p - 1) > Unwrap(keep_last)
                    ELSE (p - 1) > 0}
    IN  Pick(image_tags, kept, 1)

filter_image_tags_flipped(opts, image_tags) ==
    LET keep_last == opts.filter.keep_last
        kept == {p \in 1..Len(image_tags) :
                    IF IsSome(keep_last) THEN (p - 1) <= Unwrap(keep_last)
                    ELSE TRUE}
    IN  Pick(image_tags, kept, 1)

filter_image_tags_from_n(opts, image_tags) ==
    LET keep_last == opts.filter.keep_last
        kept == {p \in 1..Len(image_tags) :
                    IF IsSome(keep_last) THEN (p - 1) >= Unwrap(keep_last)
                    ELSE TRUE}
    IN  Pick(image_tags, kept, 1)

filter_image_tags(opts, image_tags) ==
    LET keep_last == opts.filter.keep_last
        kept == {p \in 1..Len(image_tags) :
                    IF IsSome(keep_last) THEN (p - 1) > Unwrap(keep_last)
                    ELSE TRUE}
    IN  Pick(image_tags, kept, 1)

\* Characters of a line typed at the prompt
LineChars == {"y", "Y", "n", " "}
Newline == "\n"
IsWhitespace(c) == c \in {" ", Newline}

\* The lines read_line can deliver: a body, with its terminating newline or
\* (at end of input) without one
Lines ==
    {body \o nl : body \in SeqsUpTo(LineChars, MaxLineLen),
                  nl \in {<<>>, <<Newline>>}}

RECURSIVE trim_start(_)
trim_start(s) ==
    IF s # <<>> /\ IsWhitespace(s[1]) THEN trim_start(Tail(s)) ELSE s

RECURSIVE trim_end(_)
trim_end(s) ==
    IF s # <<>> /\ IsWhitespace(s[Len(s)])
    THEN trim_end(SubSeq(s, 1, Len(s) - 1)) ELSE s

\* str::trim
trim(s) == trim_end(trim_start(s))

\* read_answer_from_stdin, on a successful read of line
read_answer_from_stdin(line) == trim(line)

\* answer == "y" || answer == "Y"
is_affirmative_not_no(answer) == answer # <<"n">>

is_affirmative(answer) == answer = <<"y">> \/ answer = <<"Y">>


\* Characters of the NAMESPACE/IMAGE argument
ArgChars == {"a", "b", "/"}
ArgStrings == SeqsUpTo(ArgChars, MaxArgLen)

\* The positions of the '/' characters of arg
SlashPositions(arg) == {i \in 1..Len(arg) : arg[i] = "/"}

\* arg.splitn(2, '/'): the whole string when it holds no '/', otherwise what
\* precedes the first '/' and everything behind it
splitn2_at_last(arg) ==
    IF SlashPositions(arg) = {} THEN <<arg>>
    ELSE LET k == CHOOSE i \in SlashPositions(arg) :
                      \A j \in SlashPositions(arg) : j <= i
         IN  <<SubSeq(arg, 1, k - 1), SubSeq(arg, k + 1, Len(arg))>>

splitn2(arg) ==
    IF SlashPositions(arg) = {} THEN <<arg>>
    ELSE LET k == CHOOSE i \in SlashPositions(arg) :
                      \A j \in SlashPositions(arg) : i <= j
         IN  <<SubSeq(arg, 1, k - 1), SubSeq(arg, k + 1, Len(arg))>>

\* parse_image_argument: match (parts.next(), parts.next())
parse_image_argument(arg) ==
    LET parts == splitn2(arg)
    IN  IF Len(parts) = 2
        THEN IF parts[1] = <<>> \/ parts[2] = <<>>
             THEN None
             ELSE Some(<<parts[1], parts[2]>>)
        ELSE None

\* validate_image_arg: Ok(()) exactly when the argument parses
validate_image_arg(arg) == IsSome(parse_image_argument(arg))

(***************************************************************************)
(* Pure functions of scaleway_sdk/src/registry.rs                          *)
(***************************************************************************)

\* ImageTag::is_older_than
is_older_than(tag, date_time) == tag.updated_at < date_time

\* ImageTag::is_newer_than
is_newer_than(tag, date_time) == tag.updated_at >= date_time


(***************************************************************************)
(* State of one run of try_main                                            *)
(***************************************************************************)
VARIABLES
    pc,             \* phase of the pipeline
    options,        \* struct Options (namespace, image, filter)
    namespace_vec,  \* get_namespace_and_image: fetched namespace list
    image_vec,      \* get_namespace_and_image: fetched image list
    namespace,      \* get_namespace_and_image: the namespace found
    image,          \* the resolved image
    tags,           \* the fetched tag list (sorted once filtered)
    filtered_tags,  \* the deletion plan
    preview,        \* the preview lines printed to stdout
    prompted,       \* the confirmation prompt has been printed
    answer,         \* the answer read from stdin
    calls,          \* the registry calls issued so far, in order
    in_flight,      \* ids of the tags whose delete request is awaiting a response
    deleted,        \* ids of the tags whose delete call returned Ok, in order
    pb,             \* the progress bar
    result,         \* what try_main returns
    matches,        \* the command line, as far as parse_args does not keep it
    responses,      \* what the registry answered to the calls that returned
    parse_case,     \* a call of parse_image_argument: argument and result
    date_case       \* a tag, a date_time and the results of the comparisons

\* The variables of the pipeline
pipeline_vars == <<pc, options, namespace_vec, image_vec, namespace, image,
                   tags, filtered_tags, preview, prompted, answer, calls,
                   in_flight, deleted, pb, result, matches, responses>>

\* The variables of the calls of the stand-alone functions
unit_vars == <<parse_case, date_case>>

vars == <<pipeline_vars, unit_vars>>

\* Ok(_) and Err(err) answers of the registry
OkResponse == [ok |-> TRUE, err |-> None]
ErrResponse(err) == [ok |-> FALSE, err |-> Some(err)]

Call(op, arg) == [op |-> op, arg |-> arg]

IsDelete(c) == c.op = "delete_image_by_tag"

\* The tag ids of the delete calls issued so far, in order
delete_calls ==
    LET d == SelectSeq(calls, IsDelete)
    IN  [i \in 1..Len(d) |-> d[i].arg]

\* The ids of a sequence of tags
Ids(ts) == [i \in 1..Len(ts) |-> ts[i].id]

KeepLastValues == {None} \cup {Some(n) : n \in 0..MaxKeepLast}

\* --keep-within <duration>: declared as a command line argument
KeepWithinValues == {None, Some(2)}

\* No call of a stand-alone function
NoParseCase == [arg |-> <<>>, result |-> None]
NoDateCase == [updated_at |-> 1, date_time |-> 1,
               is_older_than |-> None, is_newer_than |-> None]

\* try_main before its first registry call, for given options
PipelineInit ==
    /\ pc = "Start"
    /\ namespace_vec = <<>>
    /\ image_vec = <<>>
    /\ namespace = None
    /\ image = None
    /\ tags = <<>>
    /\ filtered_tags = <<>>
    /\ preview = <<>>
    /\ prompted = FALSE
    /\ answer = None
    /\ calls = <<>>
    /\ responses = <<>>
    /\ in_flight = {}
    /\ deleted = <<>>
    /\ pb = None
    /\ result = Pending

\* parse_args: the options of the run; keep-within is not read
Init ==
    /\ PipelineInit
    /\ matches \in [keep_within : KeepWithinValues]
    /\ options \in [namespace : NamespaceNames, image : ImageNames,
                    filter : [keep_last : KeepLastValues]]
    /\ parse_case = NoParseCase
    /\ date_case = NoDateCase

\* return Err(e) from try_main
Fail(e) ==
    /\ pc' = "Failed"
    /\ result' = e

\* get_namespace_and_image, first half: registry.namespaces().await? and find
ResolveNamespace ==
    /\ pc = "Start"
    /\ calls' = Append(calls, Call("namespaces", ""))
    /\ \/ \E err \in SdkErrors :
            /\ Fail(FromSdkError(err))
            /\ responses' = Append(responses, ErrResponse(err))
            /\ UNCHANGED <<namespace_vec, namespace>>
       \/ \E resp \in NamespaceResponses :
            /\ responses' = Append(responses, OkResponse)
            /\ namespace_vec' = resp
            /\ LET found == find_namespace(resp, options.namespace)
               IN  IF IsSome(found)
                   THEN /\ namespace' = found
                        /\ pc' = "NamespaceFound"
                        /\ UNCHANGED result
                   ELSE /\ Fail(ErrorKind("NoSuchNamespace"))
                        /\ UNCHANGED namespace
    /\ UNCHANGED <<options, image_vec, image, tags, filtered_tags, preview,
                   prompted, answer, in_flight, deleted, pb>>
    /\ UNCHANGED <<matches, unit_vars>>

\* get_namespace_and_image, second half: registry.images().await?, filter, find
ResolveImageDefaultOnError ==
    /\ pc = "NamespaceFound"
    /\ calls' = Append(calls, Call("images", ""))
    /\ \/ \E err \in SdkErrors :
            /\ responses' = Append(responses, ErrResponse(err))
            /\ Fail(ErrorKind("NoSuchImage"))
            /\ UNCHANGED <<image_vec, image>>
       \/ \E resp \in ImageResponses :
            /\ responses' = Append(responses, OkResponse)
            /\ image_vec' = resp
            /\ LET found == find_image(resp, Unwrap(namespace), options.image)
               IN  IF IsSome(found)
                   THEN /\ image' = found
                        /\ pc' = "Resolved"
                        /\ UNCHANGED result
                   ELSE /\ Fail(ErrorKind("NoSuchImage"))
                        /\ UNCHANGED image
    /\ UNCHANGED <<options, namespace_vec, namespace, tags, filtered_tags,
                   preview, prompted, answer, in_flight, deleted, pb>>
    /\ UNCHANGED <<matches, unit_vars>>

ResolveImage ==
    /\ pc = "NamespaceFound"
    /\ calls' = Append(calls, Call("images", ""))
    /\ \/ \E err \in SdkErrors :
            /\ Fail(FromSdkError(err))
            /\ responses' = Append(responses, ErrResponse(err))
            /\ UNCHANGED <<image_vec, image>>
       \/ \E resp \in ImageResponses :
            /\ responses' = Append(responses, OkResponse)
            /\ image_vec' = resp
            /\ LET found == find_image(resp, Unwrap(namespace), options.image)
               IN  IF IsSome(found)
                   THEN /\ image' = found
                        /\ pc' = "Resolved"
                        /\ UNCHANGED result
                   ELSE /\ Fail(ErrorKind("NoSuchImage"))
                        /\ UNCHANGED image
    /\ UNCHANGED <<options, namespace_vec, namespace, tags, filtered_tags,
                   preview, prompted, answer, in_flight, deleted, pb>>
    /\ UNCHANGED <<matches, unit_vars>>

\* let (_, image) = ...; registry.image_tags(image.id()).await?; is_empty check.
\* The namespace and the two lists go out of scope when the resolver returns.
FetchTagsUnchecked ==
    /\ pc = "Resolved"
    /\ calls' = Append(calls, Call("image_tags", Unwrap(image).id))
    /\ namespace_vec' = <<>>
    /\ image_vec' = <<>>
    /\ namespace' = None
    /\ \/ \E err \in SdkErrors :
            /\ Fail(FromSdkError(err))
            /\ responses' = Append(responses, ErrResponse(err))
            /\ UNCHANGED tags
       \/ \E resp \in ImageTagResponses(Unwrap(image).id) :
            /\ responses' = Append(responses, OkResponse)
            /\ tags' = resp
            /\ pc' = "TagsFetched"
            /\ UNCHANGED result
    /\ UNCHANGED <<options, image, filtered_tags, preview, prompted, answer,
                   in_flight, deleted, pb>>
    /\ UNCHANGED <<matches, unit_vars>>

FetchTagsOfFirstListedImage ==
    /\ pc = "Resolved"
    /\ calls' = Append(calls, Call("image_tags", image_vec[1].id))
    /\ namespace_vec' = <<>>
    /\ image_vec' = <<>>
    /\ namespace' = None
    /\ \/ \E err \in SdkErrors :
            /\ Fail(FromSdkError(err))
            /\ responses' = Append(responses, ErrResponse(err))
            /\ UNCHANGED tags
       \/ \E resp \in ImageTagResponses(image_vec[1].id) :
            /\ responses' = Append(responses, OkResponse)
            /\ tags' = resp
            /\ IF resp = <<>>
               THEN Fail(ErrorKind("NoImageTagsError"))
               ELSE /\ pc' = "TagsFetched"
                    /\ UNCHANGED result
    /\ UNCHANGED <<options, image, filtered_tags, preview, prompted, answer,
                   in_flight, deleted, pb>>
    /\ UNCHANGED <<matches, unit_vars>>

FetchTags ==
    /\ pc = "Resolved"
    /\ calls' = Append(calls, Call("image_tags", Unwrap(image).id))
    /\ namespace_vec' = <<>>
    /\ image_vec' = <<>>
    /\ namespace' = None
    /\ \/ \E err \in SdkErrors :
            /\ Fail(FromSdkError(err))
            /\ responses' = Append(responses, ErrResponse(err))
            /\ UNCHANGED tags
       \/ \E resp \in ImageTagResponses(Unwrap(image).id) :
            /\ responses' = Append(responses, OkResponse)
            /\ tags' = resp
            /\ IF resp = <<>>
               THEN Fail(ErrorKind("NoImageTagsError"))
               ELSE /\ pc' = "TagsFetched"
                    /\ UNCHANGED result
    /\ UNCHANGED <<options, image, filtered_tags, preview, prompted, answer,
                   in_flight, deleted, pb>>
    /\ UNCHANGED <<matches, unit_vars>>

\* tags.sort_by(..); tags.reverse(); filter_image_tags; is_empty check
FilterTagsAllowingEmptyPlan ==
    /\ pc = "TagsFetched"
    /\ LET sorted == reverse(sort_by_updated_at(tags))
           plan == filter_image_tags(options, sorted)
       IN  /\ tags' = sorted
           /\ filtered_tags' = plan
           /\ pc' = "Filtered"
           /\ UNCHANGED result
    /\ UNCHANGED <<options, namespace_vec, image_vec, namespace, image,
                   preview, prompted, answer, calls, in_flight, deleted, pb>>
    /\ UNCHANGED <<matches, responses, unit_vars>>

FilterTags ==
    /\ pc = "TagsFetched"
    /\ LET sorted == reverse(sort_by_updated_at(tags))
           plan == filter_image_tags(options, sorted)
       IN  /\ tags' = sorted
           /\ filtered_tags' = plan
           /\ IF plan = <<>>
              THEN Fail(ErrorKind("NoMatchingImageTagsError"))
              ELSE /\ pc' = "Filtered"
                   /\ UNCHANGED result
    /\ UNCHANGED <<options, namespace_vec, image_vec, namespace, image,
                   preview, prompted, answer, calls, in_flight, deleted, pb>>
    /\ UNCHANGED <<matches, responses, unit_vars>>

\* The preview loop and the prompt
Preview ==
    /\ pc = "Filtered"
    /\ preview' = [i \in 1..Len(filtered_tags) |->
                      <<Unwrap(image).name, filtered_tags[i].name,
                        filtered_tags[i].updated_at>>]
    /\ prompted' = TRUE
    /\ pc' = "AwaitingConfirmation"
    /\ UNCHANGED <<options, namespace_vec, image_vec, namespace, image, tags,
                   filtered_tags, answer, calls, in_flight, deleted, pb,
                   result>>
    /\ UNCHANGED <<matches, responses, unit_vars>>

\* ProgressBar::new(filtered_tags.len())
NewProgressBar(len) ==
    [prefix |-> "", pos |-> 0, len |-> len, finished |-> FALSE]

\* if let Ok(answer) = read_answer_from_stdin() { if answer == "y" || ... }
Confirm ==
    /\ pc = "AwaitingConfirmation"
    /\ \/ \* the read fails: the block is skipped and try_main returns Ok(())
          /\ pc' = "Aborted"
          /\ result' = OkResult
          /\ UNCHANGED <<answer, pb>>
       \/ \E line \in Lines :
            LET a == read_answer_from_stdin(line)
            IN  /\ answer' = Some(a)
                /\ IF is_affirmative(a)
                   THEN /\ pb' = Some(NewProgressBar(Len(filtered_tags)))
                        /\ pc' = "Deleting"
                        /\ UNCHANGED result
                   ELSE /\ pc' = "Aborted"
                        /\ result' = OkResult
                        /\ UNCHANGED pb
    /\ UNCHANGED <<options, namespace_vec, image_vec, namespace, image, tags,
                   filtered_tags, preview, prompted, calls, in_flight,
                   deleted>>
    /\ UNCHANGED <<matches, responses, unit_vars>>

\* `.await` of the delete call: the loop body goes on only once the call it
\* issued has returned
loop_resumes_unawaited(pending) == TRUE

loop_resumes(pending) == pending = {}

\* Loop iteration, up to the request being sent:
\* pb.set_prefix(..); registry.delete_image_by_tag(tag.id(), false)
DeleteIssue ==
    /\ pc = "Deleting"
    /\ loop_resumes(in_flight)
    /\ Len(delete_calls) < Len(filtered_tags)
    /\ LET tag == filtered_tags[Len(delete_calls) + 1]
       IN  /\ pb' = Some([Unwrap(pb) EXCEPT
                            !.prefix = <<Unwrap(image).name, tag.name>>])
           /\ calls' = Append(calls, Call("delete_image_by_tag", tag.id))
           /\ in_flight' = in_flight \cup {tag.id}
    /\ UNCHANGED <<pc, options, namespace_vec, image_vec, namespace, image,
                   tags, filtered_tags, preview, prompted, answer, deleted,
                   result>>
    /\ UNCHANGED <<matches, responses, unit_vars>>

\* Loop iteration, from the response on: `?` and pb.inc(1)
DeleteReturnIgnoringError ==
    /\ pc = "Deleting"
    /\ \E id \in in_flight :
        /\ in_flight' = in_flight \ {id}
        /\ \/ \E err \in SdkErrors :
                /\ responses' = Append(responses, ErrResponse(err))
                /\ UNCHANGED <<deleted, pb>>
           \/ /\ deleted' = Append(deleted, id)
              /\ responses' = Append(responses, OkResponse)
              /\ pb' = Some([Unwrap(pb) EXCEPT !.pos = @ + 1])
        /\ UNCHANGED <<pc, result>>
    /\ UNCHANGED <<options, namespace_vec, image_vec, namespace, image, tags,
                   filtered_tags, preview, prompted, answer, calls>>
    /\ UNCHANGED <<matches, unit_vars>>

DeleteReturnCountingFailure ==
    /\ pc = "Deleting"
    /\ \E id \in in_flight :
        /\ in_flight' = in_flight \ {id}
        /\ \/ \E err \in SdkErrors :
                /\ Fail(FromSdkError(err))
                /\ responses' = Append(responses, ErrResponse(err))
                /\ pb' = Some([Unwrap(pb) EXCEPT !.pos = @ + 1])
                /\ UNCHANGED deleted
           \/ /\ deleted' = Append(deleted, id)
              /\ responses' = Append(responses, OkResponse)
              /\ pb' = Some([Unwrap(pb) EXCEPT !.pos = @ + 1])
              /\ UNCHANGED <<pc, result>>
    /\ UNCHANGED <<options, namespace_vec, image_vec, namespace, image, tags,
                   filtered_tags, preview, prompted, answer, calls>>
    /\ UNCHANGED <<matches, unit_vars>>

DeleteReturn ==
    /\ pc = "Deleting"
    /\ \E id \in in_flight :
        /\ in_flight' = in_flight \ {id}
        /\ \/ \E err \in SdkErrors :
                /\ Fail(FromSdkError(err))
                /\ responses' = Append(responses, ErrResponse(err))
                /\ UNCHANGED <<deleted, pb>>
           \/ /\ deleted' = Append(deleted, id)
              /\ responses' = Append(responses, OkResponse)
              /\ pb' = Some([Unwrap(pb) EXCEPT !.pos = @ + 1])
              /\ UNCHANGED <<pc, result>>
    /\ UNCHANGED <<options, namespace_vec, image_vec, namespace, image, tags,
                   filtered_tags, preview, prompted, answer, calls>>
    /\ UNCHANGED <<matches, unit_vars>>

\* The loop is exhausted: pb.finish(); Ok(())
FinishBeforeLast ==
    /\ pc = "Deleting"
    /\ in_flight = {}
    /\ Len(delete_calls) >= Len(filtered_tags) - 1
    /\ pb' = Some([Unwrap(pb) EXCEPT !.finished = TRUE])
    /\ pc' = "Done"
    /\ result' = OkResult
    /\ UNCHANGED <<options, namespace_vec, image_vec, namespace, image, tags,
                   filtered_tags, preview, prompted, answer, calls, in_flight,
                   deleted>>
    /\ UNCHANGED <<matches, responses, unit_vars>>

Finish ==
    /\ pc = "Deleting"
    /\ in_flight = {}
    /\ Len(delete_calls) = Len(filtered_tags)
    /\ pb' = Some([Unwrap(pb) EXCEPT !.finished = TRUE])
    /\ pc' = "Done"
    /\ result' = OkResult
    /\ UNCHANGED <<options, namespace_vec, image_vec, namespace, image, tags,
                   filtered_tags, preview, prompted, answer, calls, in_flight,
                   deleted>>
    /\ UNCHANGED <<matches, responses, unit_vars>>

Next ==
    \/ ResolveNamespace
    \/ ResolveImage
    \/ FetchTags
    \/ FilterTags
    \/ Preview
    \/ Confirm
    \/ DeleteIssue
    \/ DeleteReturn
    \/ Finish

Spec == Init /\ [][Next]_vars

(***************************************************************************)
(* Calls of the stand-alone functions: parse_image_argument (the clap      *)
(* validator of the IMAGE argument) and the date comparisons of ImageTag.  *)
(***************************************************************************)
UnitInit ==
    /\ PipelineInit
    /\ matches = [keep_within |-> None]
    /\ options = [namespace |-> "prod", image |-> "api",
                  filter |-> [keep_last |-> None]]
    /\ parse_case \in [arg : ArgStrings, result : {None}]
    /\ date_case \in [updated_at : Times, date_time : Times,
                      is_older_than : {None}, is_newer_than : {None}]

\* parse_image_argument(arg)
CallParseImageArgument ==
    /\ parse_case.result = None
    /\ parse_case' = [parse_case EXCEPT
                        !.result = Some(parse_image_argument(parse_case.arg))]
    /\ UNCHANGED <<pipeline_vars, date_case>>

\* tag.is_older_than(date_time)
CallIsOlderThan ==
    /\ date_case.is_older_than = None
    /\ date_case' = [date_case EXCEPT
                        !.is_older_than =
                            Some(is_older_than([updated_at |-> date_case.updated_at],
                                               date_case.date_time))]
    /\ UNCHANGED <<pipeline_vars, parse_case>>

\* tag.is_newer_than(date_time)
CallIsNewerThan ==
    /\ date_case.is_newer_than = None
    /\ date_case' = [date_case EXCEPT
                        !.is_newer_than =
                            Some(is_newer_than([updated_at |-> date_case.updated_at],
                                               date_case.date_time))]
    /\ UNCHANGED <<pipeline_vars, parse_case>>

UnitNext ==
    \/ CallParseImageArgument
    \/ CallIsOlderThan
    \/ CallIsNewerThan

UnitSpec == UnitInit /\ [][UnitNext]_vars


(***************************************************************************)
(* Vocabulary of the properties                                            *)
(***************************************************************************)
keep_last == options.filter.keep_last

ApiFailed == pc = "Failed" /\ result.kind = "ApiError"

\* The sort and the retention filter have run: tags is sorted and
\* filtered_tags is the deletion plan
FilterApplied ==
    \/ pc \in {"Filtered", "AwaitingConfirmation", "Deleting", "Done", "Aborted"}
    \/ pc = "Failed" /\ result.kind = "NoMatchingImageTagsError"
    \/ pc = "Failed" /\ delete_calls # <<>>

InPlan(t) == \E i \in 1..Len(filtered_tags) : filtered_tags[i].id = t.id

\* The tags the filter retains
Retained == {tags[i] : i \in {j \in 1..Len(tags) : ~InPlan(tags[j])}}
Planned == {filtered_tags[i] : i \in 1..Len(filtered_tags)}

YesAnswers == {Some(<<"y">>), Some(<<"Y">>)}

\* The confirmation has been answered (or the read of the answer failed)
ConfirmationOver == pc = "Aborted" \/ IsSome(answer)

IsPrefix(s, t) == Len(s) <= Len(t) /\ s = SubSeq(t, 1, Len(s))

\* The namespace list has been received and is still in scope
NamespacesListed ==
    /\ Len(calls) \in {1, 2}
    /\ ~(Len(calls) = 1 /\ ApiFailed)

\* The image list has been received and is still in scope
ImagesListed == Len(calls) = 2 /\ ~ApiFailed

\* The tag list has been received
TagsListed == Len(calls) >= 3 /\ ~(Len(calls) = 3 /\ ApiFailed)

(***************************************************************************)
(* C1: for a sorted tag list of length L and keepLast = N with 0 <= N <= L *)
(* the deletion plan is exactly the tags at recency rank N..L-1 and has    *)
(* L - N entries.  The code keeps rank N as well (index > n), so this is   *)
(* violated.                                                               *)
(***************************************************************************)
C1_PlanIsRanksFromN ==
    (FilterApplied /\ IsSome(keep_last) /\ Unwrap(keep_last) <= Len(tags)) =>
        /\ filtered_tags = SubSeq(tags, Unwrap(keep_last) + 1, Len(tags))
        /\ Len(filtered_tags) = Len(tags) - Unwrap(keep_last)

(***************************************************************************)
(* C2: delete calls are issued only after the answer y or Y; every other   *)
(* answer (the empty line included) issues no delete call, leaves the      *)
(* registry unchanged and ends in Aborted with a success outcome.          *)
(***************************************************************************)
C2_DeleteOnlyAfterYes ==
    /\ (delete_calls # <<>> \/ pc \in {"Deleting", "Done"}) => answer \in YesAnswers
    /\ (ConfirmationOver /\ answer \notin YesAnswers) =>
            /\ pc = "Aborted"
            /\ result = OkResult
            /\ delete_calls = <<>>
            /\ deleted = <<>>
            /\ in_flight = {}
    /\ answer \in YesAnswers => pc \in {"Deleting", "Done", "Failed"}

C2_Witness ==
    /\ pc = "Aborted"
    /\ answer = Some(<<>>)
    /\ Len(filtered_tags) >= 2
    /\ prompted

(***************************************************************************)
(* C3: when the k-th delete call fails, exactly k-1 deletions have         *)
(* succeeded, entries k+1.. are never attempted, the failed call is not    *)
(* retried, nothing is undone and the run ends with that API error; as     *)
(* long as the run has not failed every returned delete call succeeded.    *)
(***************************************************************************)
C3_DeleteFailureStopsLoop ==
    /\ [](/\ (pc = "Failed" /\ delete_calls # <<>>) =>
                LET k == Len(delete_calls)
                IN  /\ delete_calls = SubSeq(Ids(filtered_tags), 1, k)
                    /\ deleted = SubSeq(Ids(filtered_tags), 1, k - 1)
                    /\ in_flight = {}
                    /\ result.kind = "ApiError"
                    /\ IsSome(result.cause)
                    /\ Unwrap(result.cause) \in SdkErrors
          /\ pc \in {"Deleting", "Done"} =>
                Len(deleted) = Len(delete_calls) - Cardinality(in_flight))
    /\ [][pc = "Failed" => (calls' = calls /\ deleted' = deleted
                            /\ result' = result /\ pc' = "Failed")]_vars

C3_Witness ==
    /\ pc = "Failed"
    /\ Len(filtered_tags) = 3
    /\ Len(delete_calls) = 2
    /\ Len(deleted) = 1
    /\ result.kind = "ApiError"

(***************************************************************************)
(* C4 as stated: with keepLast set every tag of the plan is strictly older *)
(* than every retained tag, also when tags share an updatedAt.             *)
(***************************************************************************)
C4_PlanStrictlyOlder ==
    (FilterApplied /\ IsSome(keep_last)) =>
        \A p \in Planned : \A r \in Retained : p.updated_at < r.updated_at

(***************************************************************************)
(* C4 amended: with keepLast set no tag of the plan is newer than a        *)
(* retained tag (its updatedAt is less than or equal to that of every      *)
(* retained tag).                                                          *)
(***************************************************************************)
C4_PlanNotNewerThanRetained ==
    (FilterApplied /\ IsSome(keep_last)) =>
        \A p \in Planned : \A r \in Retained : p.updated_at <= r.updated_at

C4_Witness ==
    /\ FilterApplied
    /\ IsSome(keep_last)
    /\ \E p \in Planned : \E r \in Retained : p.updated_at = r.updated_at
    /\ \E p \in Planned : \E r \in Retained : p.updated_at < r.updated_at

(***************************************************************************)
(* C5: without keepLast the plan is the whole fetched tag list, and a run  *)
(* that reaches Done has deleted every fetched tag.                        *)
(***************************************************************************)
C5_NoPolicyDeletesAll ==
    /\ (FilterApplied /\ keep_last = None) => filtered_tags = tags
    /\ (pc = "Done" /\ keep_last = None) =>
            /\ Len(deleted) = Len(tags)
            /\ \A i \in 1..Len(tags) : \E j \in 1..Len(deleted) : deleted[j] = tags[i].id

C5_Witness ==
    /\ pc = "Done"
    /\ keep_last = None
    /\ Len(tags) >= 2
    /\ Len(deleted) = Len(tags)

(***************************************************************************)
(* C6: an image whose name exists only in namespaces other than the        *)
(* resolved one makes the resolver fail with NoSuchImage; a resolved image *)
(* always belongs to the resolved namespace.                               *)
(***************************************************************************)
C6_ImageOfOtherNamespace ==
    /\ pc = "Resolved" =>
            /\ Unwrap(image).namespace_id = Unwrap(namespace).id
            /\ Unwrap(image).name = options.image
    /\ (/\ ImagesListed
        /\ \A i \in 1..Len(image_vec) :
              image_vec[i].name = options.image =>
                  image_vec[i].namespace_id # Unwrap(namespace).id) =>
            /\ pc = "Failed"
            /\ result = ErrorKind("NoSuchImage")
            /\ image = None

C6_Witness ==
    /\ pc = "Failed"
    /\ result = ErrorKind("NoSuchImage")
    /\ \E i \in 1..Len(image_vec) :
          /\ image_vec[i].name = options.image
          /\ image_vec[i].namespace_id # Unwrap(namespace).id

(***************************************************************************)
(* C7: the resolver fails with NoSuchNamespace exactly when no entry of    *)
(* the fetched namespace list carries the requested name (compared         *)
(* exactly); otherwise the namespace it resolves to has that name.         *)
(***************************************************************************)
C7_NoSuchNamespaceExactly ==
    /\ result.kind = "NoSuchNamespace" => (pc = "Failed" /\ Len(calls) = 1)
    /\ NamespacesListed =>
            /\ result.kind = "NoSuchNamespace" <=>
                  ~\E i \in 1..Len(namespace_vec) :
                        namespace_vec[i].name = options.namespace
            /\ result.kind # "NoSuchNamespace" =>
                  /\ IsSome(namespace)
                  /\ Unwrap(namespace).name = options.namespace
                  /\ \E i \in 1..Len(namespace_vec) :
                        namespace_vec[i] = Unwrap(namespace)

C7_Witness ==
    /\ pc = "Failed"
    /\ result = ErrorKind("NoSuchNamespace")
    /\ namespace_vec # <<>>
    /\ \E i \in 1..Len(namespace_vec) :
          Lower(namespace_vec[i].name) = Lower(options.namespace)

(***************************************************************************)
(* C8: an empty tag list makes the run fail with NoImageTagsError before   *)
(* the filter: no NoMatchingImageTagsError, no prompt, no delete call.     *)
(***************************************************************************)
C8_EmptyTagList ==
    /\ (TagsListed /\ tags = <<>>) =>
            /\ pc = "Failed"
            /\ result = ErrorKind("NoImageTagsError")
            /\ filtered_tags = <<>>
            /\ preview = <<>>
            /\ ~prompted
            /\ delete_calls = <<>>
    /\ result.kind = "NoImageTagsError" => (TagsListed /\ tags = <<>>)

C8_Witness ==
    /\ pc = "Failed"
    /\ result = ErrorKind("NoImageTagsError")
    /\ Len(calls) = 3
    /\ calls[3].op = "image_tags"

(***************************************************************************)
(* C9: for a non-empty tag list of length L and keepLast >= L the plan is  *)
(* empty and the run fails with NoMatchingImageTagsError, without a prompt *)
(* and without a delete call.                                              *)
(***************************************************************************)
C9_KeepAll ==
    (/\ TagsListed
     /\ tags # <<>>
     /\ pc # "TagsFetched"
     /\ IsSome(keep_last)
     /\ Unwrap(keep_last) >= Len(tags)) =>
        /\ pc = "Failed"
        /\ result = ErrorKind("NoMatchingImageTagsError")
        /\ filtered_tags = <<>>
        /\ preview = <<>>
        /\ ~prompted
        /\ delete_calls = <<>>

C9_Witness ==
    /\ pc = "Failed"
    /\ result = ErrorKind("NoMatchingImageTagsError")
    /\ Len(tags) >= 2
    /\ keep_last = Some(Len(tags))

(***************************************************************************)
(* C10: delete calls go out one at a time in plan order: call i+1 is       *)
(* issued only after call i returned Ok, never are two requests in flight, *)
(* and the deletions follow the order of the preview.                      *)
(***************************************************************************)
C10_SequentialDeletes ==
    /\ Cardinality(in_flight) <= 1
    /\ IsPrefix(delete_calls, Ids(filtered_tags))
    /\ pc # "Failed" =>
          deleted = SubSeq(delete_calls, 1, Len(delete_calls) - Cardinality(in_flight))
    /\ IsPrefix(deleted, delete_calls)
    /\ in_flight # {} => in_flight = {delete_calls[Len(delete_calls)]}
    /\ \A i \in 1..Len(deleted) :
          /\ i <= Len(preview)
          /\ \E j \in 1..Len(tags) :
                /\ tags[j].id = deleted[i]
                /\ preview[i] = <<Unwrap(image).name, tags[j].name, tags[j].updated_at>>

C10_Witness ==
    /\ pc = "Deleting"
    /\ Len(delete_calls) = 2
    /\ Len(deleted) = 1
    /\ in_flight = {filtered_tags[2].id}

(***************************************************************************)
(* C11: with keepWithin = D given, a tag with now - updatedAt < D is never *)
(* in the deletion plan and never the target of a delete call.  The        *)
(* pipeline does not read keep-within, so such tags are planned and        *)
(* deleted.                                                                *)
(***************************************************************************)
\* The time of the run: later than every update
Now == MaxTime + 1

WithinKeepWithin(t) ==
    /\ IsSome(matches.keep_within)
    /\ Now - t.updated_at < Unwrap(matches.keep_within)

WellFormedSplits(arg) ==
    {k \in 1..Len(arg) :
        /\ arg[k] = "/"
        /\ k > 1
        /\ k < Len(arg)
        /\ \A i \in 1..(k - 1) : arg[i] # "/"}

C12_ParseImageArgument ==
    IsSome(parse_case.result) =>
        LET arg == parse_case.arg
            r == Unwrap(parse_case.result)
        IN  /\ IsSome(r) <=> WellFormedSplits(arg) # {}
            /\ \A k \in WellFormedSplits(arg) :
                  r = Some(<<SubSeq(arg, 1, k - 1), SubSeq(arg, k + 1, Len(arg))>>)
            /\ IsSome(r) => Unwrap(r)[1] \o <<"/">> \o Unwrap(r)[2] = arg
            /\ validate_image_arg(arg) <=> IsSome(r)

C12_Witness ==
    /\ parse_case.arg = <<"a", "/", "b", "/", "a">>
    /\ IsSome(parse_case.result)
    /\ LET r == Unwrap(parse_case.result)
       IN  /\ IsSome(r)
           /\ Unwrap(r)[1] = <<"a">>
           /\ Unwrap(r)[2] = <<"b", "/", "a">>

(***************************************************************************)
(* C13: after an affirmative answer the delete loop can always take a step *)
(* and every step brings it nearer to its end; it ends in Failed only when *)
(* a delete call returned an error, and otherwise in Done with success,    *)
(* having issued exactly one delete call for each entry of the plan and    *)
(* for no other tag.                                                       *)
(***************************************************************************)
\* The answers of the registry to the delete calls that returned
DeleteResponses == SubSeq(responses, 4, Len(responses))

\* What is left of the delete loop: decreases with every call issued and
\* every call returned
LoopMeasure == 2 * Len(filtered_tags) - Len(delete_calls) - Len(deleted)

Range(seq) == {seq[i] : i \in 1..Len(seq)}

C13_AllDeletedWhenNoFailure ==
    /\ [](pc = "Done" =>
            /\ result = OkResult
            /\ answer \in YesAnswers
            /\ in_flight = {}
            /\ Len(delete_calls) = Len(filtered_tags)
            /\ Range(delete_calls) = Range(Ids(filtered_tags))
            /\ Range(deleted) = Range(Ids(filtered_tags))
            /\ Len(DeleteResponses) = Len(filtered_tags)
            /\ \A i \in 1..Len(DeleteResponses) : DeleteResponses[i].ok)
    /\ []((pc = "Failed" /\ delete_calls # <<>>) =>
            ~responses[Len(responses)].ok)
    /\ [](pc = "Deleting" =>
            /\ LoopMeasure >= 0
            /\ ENABLED (DeleteIssue \/ DeleteReturn \/ Finish))
    /\ [][pc = "Deleting" =>
            \/ pc' = "Done"
            \/ pc' = "Failed" /\ ~responses'[Len(responses')].ok
            \/ pc' = "Deleting" /\ LoopMeasure' < LoopMeasure]_vars

C13_Witness ==
    /\ pc = "Done"
    /\ Len(filtered_tags) >= 2
    /\ Len(delete_calls) = Len(filtered_tags)
    /\ IsSome(keep_last)

(***************************************************************************)
(* C14: when listNamespaces, listImages or listImageTags returns an error  *)
(* the run ends at once with that error wrapped as ApiError: the call is   *)
(* not repeated, no further registry call (no delete call in particular)   *)
(* is issued and no confirmation is asked for.                             *)
(***************************************************************************)
ListOps == <<"namespaces", "images", "image_tags">>

C14_ListErrorIsFatal ==
    /\ [](\A i \in 1..Len(responses) :
            (i <= 3 /\ ~responses[i].ok) =>
                /\ pc = "Failed"
                /\ result = FromSdkError(Unwrap(responses[i].err))
                /\ result.kind = "ApiError"
                /\ Len(responses) = i
                /\ Len(calls) = i
                /\ \A j \in 1..i : calls[j].op = ListOps[j]
                /\ delete_calls = <<>>
                /\ in_flight = {}
                /\ ~prompted
                /\ preview = <<>>
                /\ answer = None)
    /\ [][pc = "Failed" => (/\ pc' = "Failed"
                            /\ result' = result
                            /\ calls' = calls
                            /\ prompted' = prompted)]_vars

C14_Witness ==
    /\ pc = "Failed"
    /\ Len(responses) = 2
    /\ ~responses[2].ok
    /\ calls[2].op = "images"
    /\ result.kind = "ApiError"

(***************************************************************************)
(* C15: a run moves through Start, Resolved, TagsFetched, Filtered,        *)
(* AwaitingConfirmation and then Deleting or Aborted, forward only; the    *)
(* three list calls are issued at most once each and in that order, the    *)
(* confirmation is asked for only after a non-empty plan was computed, and *)
(* no list call follows the confirmation.                                  *)
(***************************************************************************)
NextPhases(p) ==
    CASE p = "Start" -> {"NamespaceFound", "Failed"}
      [] p = "NamespaceFound" -> {"Resolved", "Failed"}
      [] p = "Resolved" -> {"TagsFetched", "Failed"}
      [] p = "TagsFetched" -> {"Filtered", "Failed"}
      [] p = "Filtered" -> {"AwaitingConfirmation"}
      [] p = "AwaitingConfirmation" -> {"Deleting", "Aborted"}
      [] p = "Deleting" -> {"Deleting", "Done", "Failed"}
      [] OTHER -> {}

C15_PhasesForward ==
    /\ [](/\ \A i \in 1..Len(calls) :
                IF i <= 3 THEN calls[i].op = ListOps[i] ELSE IsDelete(calls[i])
          /\ prompted =>
                /\ filtered_tags # <<>>
                /\ FilterApplied
                /\ Len(calls) >= 3
          /\ pc \in {"AwaitingConfirmation", "Deleting", "Done", "Aborted"} => prompted
          /\ ConfirmationOver => prompted
          /\ pc = "Resolved" => Len(calls) = 2
          /\ pc \in {"TagsFetched", "Filtered", "AwaitingConfirmation", "Aborted"}
                => Len(calls) = 3)
    /\ [][/\ pc' \in NextPhases(pc)
          /\ prompted => (prompted' /\ preview' = preview
                          /\ filtered_tags' = filtered_tags)
          /\ ConfirmationOver => answer' = answer]_pipeline_vars

C15_Witness ==
    /\ pc = "Deleting"
    /\ Len(calls) = 5
    /\ prompted
    /\ Len(filtered_tags) >= 2

(***************************************************************************)
(* C16: the deletion plan is ordered by updatedAt descending, it is a      *)
(* subsequence of the sorted tag list, and the preview lists exactly the   *)
(* entries of the plan in that order.                                      *)
(***************************************************************************)
Descending(ts) ==
    \A i \in 1..(Len(ts) - 1) : ts[i].updated_at >= ts[i + 1].updated_at

C16_PlanOrdered ==
    FilterApplied =>
        /\ Descending(tags)
        /\ Descending(filtered_tags)
        /\ filtered_tags = Pick(tags, {j \in 1..Len(tags) : InPlan(tags[j])}, 1)
        /\ prompted =>
              /\ Len(preview) = Len(filtered_tags)
              /\ \A i \in 1..Len(preview) :
                    preview[i] = <<Unwrap(image).name, filtered_tags[i].name,
                                   filtered_tags[i].updated_at>>

C16_Witness ==
    /\ prompted
    /\ Len(filtered_tags) >= 2
    /\ filtered_tags[1].updated_at > filtered_tags[2].updated_at
    /\ filtered_tags[1].id = "t1"
    /\ Len(tags) > Len(filtered_tags)

(***************************************************************************)
(* C17: in the delete loop the progress counter equals the number of       *)
(* delete calls that returned Ok, never exceeds the total (the length of   *)
(* the plan), is not advanced by a failed delete, and equals the total     *)
(* exactly when the loop has run to its end and the run ends in Done.      *)
(***************************************************************************)
C17_ProgressCounter ==
    /\ [](/\ IsSome(pb) <=> (IsSome(answer) /\ answer \in YesAnswers)
          /\ IsSome(pb) =>
                LET bar == Unwrap(pb)
                IN  /\ bar.len = Len(filtered_tags)
                    /\ bar.pos = Len(deleted)
                    /\ bar.pos <= bar.len
                    /\ pc = "Done" => (bar.pos = bar.len /\ bar.finished)
                    /\ bar.pos = bar.len =>
                          \/ pc = "Done"
                          \/ /\ pc = "Deleting"
                             /\ in_flight = {}
                             /\ Len(delete_calls) = bar.len
                    /\ pc = "Failed" => bar.pos < bar.len)
    /\ [][(/\ Len(responses') > Len(responses)
           /\ ~responses'[Len(responses')].ok) => pb' = pb]_pipeline_vars

C17_Witness ==
    /\ pc = "Failed"
    /\ IsSome(pb)
    /\ Unwrap(pb).pos = 1
    /\ Unwrap(pb).len = 3
    /\ Len(delete_calls) = 2

(***************************************************************************)
(* C18: is_older_than(d) is true exactly when d is earlier than the tag's  *)
(* updated_at, and is_newer_than(d) exactly when d is later than it, as    *)
(* the doc comments say.  The code compares the other way round.           *)
(***************************************************************************)
C18_DateComparisonsAsDocumented ==
    /\ IsSome(date_case.is_older_than) =>
          (Unwrap(date_case.is_older_than)
              <=> date_case.date_time < date_case.updated_at)
    /\ IsSome(date_case.is_newer_than) =>
          (Unwrap(date_case.is_newer_than)
              <=> date_case.date_time > date_case.updated_at)

IsImageTagsCall(c) == c.op = "image_tags"

C20_DeleteTargets ==
    /\ Len(SelectSeq(calls, IsImageTagsCall)) <= 1
    /\ \A i \in 1..Len(calls) :
          IsImageTagsCall(calls[i]) => calls[i].arg = Unwrap(image).id
    /\ \A i, j \in 1..Len(delete_calls) :
          i # j => delete_calls[i] # delete_calls[j]
    /\ \A i \in 1..Len(delete_calls) :
          \E j \in 1..Len(tags) :
              /\ tags[j].id = delete_calls[i]
              /\ tags[j].image_id = Unwrap(image).id
              /\ \E k \in 1..Len(preview) :
                    preview[k] = <<Unwrap(image).name, tags[j].name,
                                   tags[j].updated_at>>

C20_Witness ==
    /\ pc = "Failed"
    /\ Len(delete_calls) = 3
    /\ Len(deleted) = 2
    /\ Unwrap(image).id = "i2"

====
